---------------------------- MODULE Spec2Model ----------------------------
(***************************************************************************)
(* A model of BaseTxData (src/src/transaction/baseTxData.ts), the          *)
(* transaction record of T2-lib: its field accessors, its export/import    *)
(* pipeline (toUnnamedObject ... fromObject) and, from the documentation   *)
(* in src/unnamed/part_000, the sign/verify protocol layered on it.        *)
(*                                                                         *)
(* Values.  A JavaScript string on which the code works character by       *)
(* character (hex text, key-parameter identifiers) is a sequence of        *)
(* one-character strings; a string that is only stored and copied is a    *)
(* TLA+ string.  A byte buffer is a record [site, bytes]: bytes is the     *)
(* content (a sequence over 0..255) and site names the allocation that     *)
(* created the buffer object, so that two references to one Buffer can be  *)
(* told from two Buffers holding equal bytes.  Distinct allocations at the *)
(* same site are merged, which can only add aliasing, never hide it.       *)
(* `Buffer | null` is a sequence of zero or one buffers.                   *)
(***************************************************************************)
EXTENDS Integers, Sequences, FiniteSets, TLC

VARIABLES
    tx,       \* the BaseTxData instance: its protected fields
    copy,     \* a second instance, importing what tx exported last
    sig,      \* the signature kept beside the data: <<>> or <<signature>>
    signedTx, \* history: <<>> or <<the content of tx when sign() last succeeded>>
    held,     \* <<>> or <<an object toObject() returned, kept by the caller>>
    op,       \* name of the last operation called
    arg,      \* the value that call was given (<<>> when it takes none)
    err,      \* what that call threw or rejected with ("" when it succeeded)
    out,      \* <<>> or <<what that call returned or resolved with>>
    steps,    \* number of caller steps counted against MaxWrites / MaxEdits
    pending   \* <<>> or <<an export whose promise has not settled yet>>

vars == <<tx, copy, sig, signedTx, held, op, arg, err, out, steps, pending>>

---------------------------------------------------------------------------
(* Bounds of the model *)

\* longest run of equal bytes / hex pairs offered to a setter, beyond 8
MaxExtra == 1

\* number of in-place writes a caller makes into buffers it holds
MaxWrites == 2

\* number of field changes a caller makes after a signature was computed
MaxEdits == 3

---------------------------------------------------------------------------
(* Errors (src/errors, named in baseTxData.ts) *)

NO_ERROR == ""
WRONG_TX_NONCE_LENGTH == "WRONG_TX_NONCE_LENGTH"
IMPORT_TYPE_ERROR == "IMPORT_TYPE_ERROR"
KEY_ERROR == "KEY_ERROR"

---------------------------------------------------------------------------
(* Buffers *)

NONCE_LENGTH == 8

\* two characters for each byte
NONCE_HEX_LENGTH == 16

Buf(site, bytes) == [site |-> site, bytes |-> bytes]

NULL == <<>>

Rep(x, n) == [i \in 1..n |-> x]

\* Buffer.from(arrayLike) / new Uint8Array(typedArray): a new object with a
\* copy of the content
BufferFrom(site, b) == Buf(site, b.bytes)

HexDigits == <<"0","1","2","3","4","5","6","7","8","9","a","b","c","d","e","f">>

HexDigitsUpper == <<"0","1","2","3","4","5","6","7","8","9","A","B","C","D","E","F">>

\* value of one hex character, -1 when it is none
HexVal(c) ==
    IF \E i \in 1..16 : HexDigits[i] = c
    THEN (CHOOSE i \in 1..16 : HexDigits[i] = c) - 1
    ELSE IF \E i \in 1..16 : HexDigitsUpper[i] = c
    THEN (CHOOSE i \in 1..16 : HexDigitsUpper[i] = c) - 1
    ELSE -1

\* whether the k-th character pair of s is two hex digits
HexPairOk(s, k) == HexVal(s[2 * k - 1]) >= 0 /\ HexVal(s[2 * k]) >= 0

\* Buffer.from(s, 'hex'): one byte per character pair, stopping at the first
\* pair that is not two hex digits; a trailing odd character is dropped
HexDecode(s) ==
    LET n == Len(s) \div 2
        good == { k \in 0..n : \A j \in 1..k : HexPairOk(s, j) }
        m == CHOOSE k \in good : \A k2 \in good : k2 <= k
    IN [k \in 1..m |-> 16 * HexVal(s[2 * k - 1]) + HexVal(s[2 * k])]

RECURSIVE HexEncode(_)
\* buf.toString('hex'): two lower-case digits per byte
HexEncode(bytes) ==
    IF bytes = <<>> THEN <<>>
    ELSE <<HexDigits[(Head(bytes) \div 16) + 1], HexDigits[(Head(bytes) % 16) + 1]>>
         \o HexEncode(Tail(bytes))


---------------------------------------------------------------------------
(* MessagePack: objectToBytes (src/src/utils.ts) for the structured        *)
(* argument value, and the canonical bytes the signature is computed on    *)

\* JavaScript values offered as smart contract arguments: null, a small
\* integer, a short string (as character codes), an array, a map given as
\* the sequence key1, value1, key2, value2, ...
JsNil == [t |-> "nil", n |-> 0, s |-> <<>>, kids |-> <<>>]

JsInt(n) == [t |-> "int", n |-> n, s |-> <<>>, kids |-> <<>>]

JsStr(codes) == [t |-> "str", n |-> 0, s |-> codes, kids |-> <<>>]

JsArr(kids) == [t |-> "arr", n |-> 0, s |-> <<>>, kids |-> kids]

JsMap(kv) == [t |-> "map", n |-> 0, s |-> <<>>, kids |-> kv]

RECURSIVE mpEncode(_)
RECURSIVE mpEncodeAll(_)
\* msgpack-lite's encode on that fragment: nil is c0, an integer below 128
\* is itself, a string of under 32 bytes is a0+len and its bytes, an array of
\* under 16 items is 90+len and its items, a map of under 16 pairs is 80+n
\* and its keys and values in order
mpEncode(v) ==
    CASE v.t = "nil" -> <<192>>
      [] v.t = "int" -> <<v.n>>
      [] v.t = "str" -> <<160 + Len(v.s)>> \o v.s
      [] v.t = "arr" -> <<144 + Len(v.kids)>> \o mpEncodeAll(v.kids)
      [] v.t = "map" -> <<128 + (Len(v.kids) \div 2)>> \o mpEncodeAll(v.kids)

mpEncodeAll(vs) ==
    IF vs = <<>> THEN <<>> ELSE mpEncode(Head(vs)) \o mpEncodeAll(Tail(vs))

\* objectToBytes(obj): the encoder's output as a Uint8Array
objectToBytes(obj) == Buf("objectToBytes", mpEncode(obj))

---------------------------------------------------------------------------
(* Key handles and the key-parameter registry (BaseECKey, cryptoDefaults:  *)
(* used by baseTxData.ts, defined outside the files modelled here)         *)

\* EKeyParamsIds.EMPTY, the identifier of the "no key set" sentinel
EMPTY == <<>>

ECDSA_SECP384R1 == <<"e","c","d","s","a","_","s","e","c","p","3","8","4","r","1">>

\* an identifier with two separators, and one with none: the shapes the
\* split in toUnnamedObject distinguishes
RSA_OAEP_SHA384 == <<"r","s","a","_","o","a","e","p","_","s","h","a">>

ED25519 == <<"e","d","2","5","5","1","9">>

\* mKeyPairParams: the identifiers the registry knows
mKeyPairParams == {EMPTY, ECDSA_SECP384R1, RSA_OAEP_SHA384, ED25519}

\* new BaseECKey(params): a handle of that parameter set holding no key yet
BaseECKey(paramsId) == [paramsId |-> paramsId, raw |-> <<>>]

EmptyKey == BaseECKey(EMPTY)

\* key.getRaw(): the raw bytes of the key held, or a rejection when the
\* handle holds none
getRaw(key) ==
    IF key.raw = <<>> THEN [err |-> KEY_ERROR, raw |-> <<>>]
    ELSE [err |-> NO_ERROR, raw |-> key.raw]

\* key.importBin(raw): the handle then holds the key; raw bytes that are no
\* key are rejected and the handle is left without one
importBin(key, raw) ==
    IF raw = <<>> THEN [err |-> KEY_ERROR, key |-> key]
    ELSE [err |-> NO_ERROR, key |-> [key EXCEPT !.raw = raw]]

\* public keys a caller can hold (raw bytes abbreviated to two bytes)
PublicKeys ==
    { [paramsId |-> ECDSA_SECP384R1, raw |-> <<4, 1>>],
      [paramsId |-> ECDSA_SECP384R1, raw |-> <<4, 2>>],
      [paramsId |-> RSA_OAEP_SHA384, raw |-> <<48, 1>>],
      [paramsId |-> ED25519, raw |-> <<7>>] }

---------------------------------------------------------------------------
(* Construction and the plain accessors *)

\* TxSchemas.ATOMIC_TX, the schema tag of an atomic transaction
ATOMIC_TX == "ATOMIC_TX"

DEFAULT_SCHEMA == ATOMIC_TX

\* constructor(schema = DEFAULT_SCHEMA)
New(schema) ==
    [ schema       |-> schema,
      account      |-> "",
      maxFuel      |-> 0,
      nonce        |-> Buf("constructor", <<>>),
      network      |-> "",
      contract     |-> NULL,
      method       |-> "",
      args         |-> Buf("constructor", <<>>),
      signerPubKey |-> EmptyKey ]

accountId_set(t, id) == [t EXCEPT !.account = id]

accountId_get(t) == t.account

maxFuel_set(t, maxFuel) == [t EXCEPT !.maxFuel = maxFuel]

maxFuel_get(t) == t.maxFuel

networkName_set(t, networkName) == [t EXCEPT !.network = networkName]

networkName_get(t) == t.network

smartContractMethod_set(t, method) == [t EXCEPT !.method = method]

smartContractMethod_get(t) == t.method

\* set signerPublicKey (CommonParentTxData)
signerPublicKey_set(t, key) == [t EXCEPT !.signerPubKey = key]

---------------------------------------------------------------------------
(* nonce *)

\* set nonce(nonce: Buffer): the caller's buffer is stored, not a copy
nonce_set(t, nonce) ==
    IF Len(nonce.bytes) # NONCE_LENGTH
    THEN [err |-> WRONG_TX_NONCE_LENGTH, tx |-> t]
    ELSE [err |-> NO_ERROR, tx |-> [t EXCEPT !.nonce = nonce]]

\* get nonce(): the stored buffer itself
nonce_get(t) == t.nonce

\* set nonceHex(nonce: string): the test is on the number of characters
nonceHex_set(t, nonce) ==
    IF Len(nonce) # NONCE_HEX_LENGTH
    THEN [err |-> WRONG_TX_NONCE_LENGTH, tx |-> t]
    ELSE [err |-> NO_ERROR,
          tx |-> [t EXCEPT !.nonce = Buf("nonceHex", HexDecode(nonce))]]

nonceHex_get(t) == HexEncode(t.nonce.bytes)

\* genNonce(): random is the stream of bytes WebCrypto.getRandomValues draws
\* from to fill the new 8-byte array
genNonce(t, random) ==
    LET newNonce == SubSeq(random, 1, NONCE_LENGTH)
    IN [t EXCEPT !.nonce = Buf("genNonce", newNonce)]

---------------------------------------------------------------------------
(* smart contract hash *)

\* a variant that stores whatever it is given, a zero-length value included
smartContractHash_set_storesEmpty(t, hash) ==
    [t EXCEPT !.contract = <<BufferFrom("smartContractHash", hash)>>]

\* set smartContractHash(hash: Uint8Array)
smartContractHash_set(t, hash) ==
    IF Len(hash.bytes) > 0
    THEN [t EXCEPT !.contract = <<BufferFrom("smartContractHash", hash)>>]
    ELSE [t EXCEPT !.contract = NULL]

\* get smartContractHash(): a copy, or a new empty buffer when there is none
smartContractHash_get(t) ==
    IF t.contract # NULL
    THEN BufferFrom("smartContractHash_get", t.contract[1])
    ELSE Buf("smartContractHash_get", <<>>)

\* set smartContractHashHex(hash: string): the test is on the number of
\* characters
smartContractHashHex_set(t, hash) ==
    IF Len(hash) > 0
    THEN [t EXCEPT !.contract = <<Buf("smartContractHashHex", HexDecode(hash))>>]
    ELSE [t EXCEPT !.contract = NULL]

\* get smartContractHashHex()
smartContractHashHex_get(t) ==
    IF t.contract # NULL THEN HexEncode(t.contract[1].bytes) ELSE <<>>

\* setSmartContractHash(hash: Buffer | string); hash is [isString, str, buf]
setSmartContractHash(t, hash) ==
    IF hash.isString
    THEN smartContractHashHex_set(t, hash.str)
    ELSE smartContractHash_set(t, hash.buf)

---------------------------------------------------------------------------
(* smart contract method arguments *)

\* set smartContractMethodArgs(passedArgs: any)
smartContractMethodArgs_set(t, passedArgs) ==
    [t EXCEPT !.args = BufferFrom("smartContractMethodArgs", objectToBytes(passedArgs))]

\* a variant that appends to the bytes already stored
smartContractMethodArgsBytes_set_appends(t, passedArgs) ==
    [t EXCEPT !.args = Buf("smartContractMethodArgsBytes",
                           t.args.bytes \o passedArgs.bytes)]

\* set smartContractMethodArgsBytes(passedArgs: Uint8Array)
smartContractMethodArgsBytes_set(t, passedArgs) ==
    [t EXCEPT !.args = BufferFrom("smartContractMethodArgsBytes", passedArgs)]

\* get smartContractMethodArgsBytes(): a copy
smartContractMethodArgsBytes_get(t) ==
    BufferFrom("smartContractMethodArgsBytes_get", t.args)

\* set smartContractMethodArgsHex(passedArgs: string)
smartContractMethodArgsHex_set(t, passedArgs) ==
    [t EXCEPT !.args = Buf("smartContractMethodArgsHex", HexDecode(passedArgs))]

\* get smartContractMethodArgsHex()
smartContractMethodArgsHex_get(t) == HexEncode(t.args.bytes)

---------------------------------------------------------------------------
(* Export *)

\* s.indexOf('_'), counted from 0; -1 when s holds none
indexOfUnderscore(s) ==
    IF \E i \in 1..Len(s) : s[i] = "_"
    THEN (CHOOSE i \in 1..Len(s) : s[i] = "_" /\ \A j \in 1..(i - 1) : s[j] # "_") - 1
    ELSE -1

\* s.slice(from, to), both counted from 0
slice(s, from, to) == SubSeq(s, from + 1, to)

\* a variant that leaves maxFuel out of the tuple (slot 2 is always 0)
toUnnamedObject_begin_withoutMaxFuel(t) ==
    << t.schema,
       t.account,
       0,
       t.nonce,
       t.network,
       t.contract,
       t.method,
       << <<>>, <<>>, Buf("toUnnamedObject", <<>>) >>,
       t.args >>

\* toUnnamedObject, up to the call of getRaw: the tuple built from the
\* fields, its buffers being the record's own
toUnnamedObject_begin(t) ==
    << t.schema,
       t.account,
       t.maxFuel,
       t.nonce,
       t.network,
       t.contract,
       t.method,
       << <<>>, <<>>, Buf("toUnnamedObject", <<>>) >>,
       t.args >>

\* a variant that splits the identifier at its last separator
toUnnamedObject_then_lastUnderscore(resultObj, t, rawKeyBytes) ==
    LET paramsId == t.signerPubKey.paramsId
        at == { i \in 1..Len(paramsId) : paramsId[i] = "_" }
        last == CHOOSE i \in at : \A j \in at : j <= i
    IN IF at = {}
       THEN [resultObj EXCEPT ![8] = << paramsId, <<>>,
                                        Buf("toUnnamedObject", rawKeyBytes) >>]
       ELSE [resultObj EXCEPT ![8] = << SubSeq(paramsId, 1, last - 1),
                                        SubSeq(paramsId, last + 1, Len(paramsId)),
                                        Buf("toUnnamedObject", rawKeyBytes) >>]

\* toUnnamedObject, the continuation of getRaw: t is the record as it is when
\* the continuation runs, rawKeyBytes what getRaw resolved with
toUnnamedObject_then(resultObj, t, rawKeyBytes) ==
    LET paramsId == t.signerPubKey.paramsId
        underscoreIndex == indexOfUnderscore(paramsId)
        caller ==
            IF underscoreIndex > -1
            THEN << slice(paramsId, 0, underscoreIndex),
                    slice(paramsId, underscoreIndex + 1, Len(paramsId)),
                    Buf("toUnnamedObject", rawKeyBytes) >>
            ELSE << paramsId, resultObj[8][2], Buf("toUnnamedObject", rawKeyBytes) >>
    IN [resultObj EXCEPT ![8] = caller]

\* toUnnamedObject() when nothing else runs between its two parts
toUnnamedObject(t) ==
    LET resultObj == toUnnamedObject_begin(t)
        got == getRaw(t.signerPubKey)
    IN IF t.signerPubKey.paramsId = EMPTY
       THEN [err |-> NO_ERROR, val |-> <<resultObj>>]
       ELSE IF got.err # NO_ERROR
       THEN [err |-> got.err, val |-> <<>>]
       ELSE [err |-> NO_ERROR,
             val |-> <<toUnnamedObject_then(resultObj, t, got.raw)>>]

\* the projection in toObjectWithBuffers
toObjectWithBuffers_then(unnamedObject) ==
    [ schema   |-> unnamedObject[1],
      account  |-> unnamedObject[2],
      maxFuel  |-> unnamedObject[3],
      nonce    |-> unnamedObject[4],
      network  |-> unnamedObject[5],
      contract |-> unnamedObject[6],
      method   |-> unnamedObject[7],
      caller   |-> [ type  |-> unnamedObject[8][1],
                     curve |-> unnamedObject[8][2],
                     value |-> unnamedObject[8][3] ],
      args     |-> unnamedObject[9] ]

toObjectWithBuffers(t) ==
    LET u == toUnnamedObject(t)
    IN IF u.err # NO_ERROR THEN u
       ELSE [err |-> NO_ERROR, val |-> <<toObjectWithBuffers_then(u.val[1])>>]

\* a variant that hands out the buffers of objBuffers instead of copies
toObject_then_withoutCopies(objBuffers, t) ==
    [ schema   |-> t.schema,
      account  |-> objBuffers.account,
      maxFuel  |-> objBuffers.maxFuel,
      nonce    |-> objBuffers.nonce,
      network  |-> objBuffers.network,
      contract |-> objBuffers.contract,
      method   |-> objBuffers.method,
      caller   |-> [ type  |-> objBuffers.caller.type,
                     curve |-> objBuffers.caller.curve,
                     value |-> objBuffers.caller.value ],
      args     |-> objBuffers.args ]

\* the projection in toObject: t is the record as it is when the projection
\* runs (the schema is read from the record, not from objBuffers)
toObject_then(objBuffers, t) ==
    [ schema   |-> t.schema,
      account  |-> objBuffers.account,
      maxFuel  |-> objBuffers.maxFuel,
      nonce    |-> BufferFrom("toObject.nonce", objBuffers.nonce),
      network  |-> objBuffers.network,
      contract |-> IF objBuffers.contract # NULL
                   THEN <<BufferFrom("toObject.contract", objBuffers.contract[1])>>
                   ELSE NULL,
      method   |-> objBuffers.method,
      caller   |-> [ type  |-> objBuffers.caller.type,
                     curve |-> objBuffers.caller.curve,
                     value |-> BufferFrom("toObject.caller", objBuffers.caller.value) ],
      args     |-> BufferFrom("toObject.args", objBuffers.args) ]

toObject(t) ==
    LET o == toObjectWithBuffers(t)
    IN IF o.err # NO_ERROR THEN o
       ELSE [err |-> NO_ERROR, val |-> <<toObject_then(o.val[1], t)>>]

---------------------------------------------------------------------------
(* Import *)

\* a variant that joins the two identifier parts with the separator even
\* when the curve part is empty
fromUnnamedObject_alwaysJoins(t, passedObj) ==
    LET t1 == [t EXCEPT !.schema = passedObj[1],
                        !.account = passedObj[2],
                        !.maxFuel = passedObj[3],
                        !.nonce = passedObj[4],
                        !.network = passedObj[5],
                        !.contract = passedObj[6],
                        !.method = passedObj[7]]
        keyParamsId ==
            IF passedObj[8][1] = <<>> /\ passedObj[8][2] = <<>> THEN <<>>
            ELSE passedObj[8][1] \o <<"_">> \o passedObj[8][2]
        t2 == [t1 EXCEPT !.signerPubKey = BaseECKey(keyParamsId),
                         !.args = passedObj[9]]
        imp == importBin(t2.signerPubKey, passedObj[8][3].bytes)
    IN IF keyParamsId \notin mKeyPairParams
       THEN [err |-> IMPORT_TYPE_ERROR, tx |-> t1]
       ELSE IF keyParamsId = EMPTY
       THEN [err |-> NO_ERROR, tx |-> t2]
       ELSE [err |-> imp.err, tx |-> [t2 EXCEPT !.signerPubKey = imp.key]]

\* a variant without the registry test: the key handle is built from
\* whatever identifier the tuple names
fromUnnamedObject_noRegistryTest(t, passedObj) ==
    LET keyParamsId ==
            IF Len(passedObj[8][2]) > 0
            THEN passedObj[8][1] \o <<"_">> \o passedObj[8][2]
            ELSE passedObj[8][1]
        t2 == [t EXCEPT !.schema = passedObj[1],
                        !.account = passedObj[2],
                        !.maxFuel = passedObj[3],
                        !.nonce = passedObj[4],
                        !.network = passedObj[5],
                        !.contract = passedObj[6],
                        !.method = passedObj[7],
                        !.signerPubKey = BaseECKey(keyParamsId),
                        !.args = passedObj[9]]
        imp == importBin(t2.signerPubKey, passedObj[8][3].bytes)
    IN IF keyParamsId = EMPTY
       THEN [err |-> NO_ERROR, tx |-> t2]
       ELSE [err |-> imp.err, tx |-> [t2 EXCEPT !.signerPubKey = imp.key]]

\* a variant that assigns nothing when the registry test fails
fromUnnamedObject_allOrNothing(t, passedObj) ==
    LET keyParamsId ==
            IF Len(passedObj[8][2]) > 0
            THEN passedObj[8][1] \o <<"_">> \o passedObj[8][2]
            ELSE passedObj[8][1]
        t2 == [t EXCEPT !.schema = passedObj[1],
                        !.account = passedObj[2],
                        !.maxFuel = passedObj[3],
                        !.nonce = passedObj[4],
                        !.network = passedObj[5],
                        !.contract = passedObj[6],
                        !.method = passedObj[7],
                        !.signerPubKey = BaseECKey(keyParamsId),
                        !.args = passedObj[9]]
        imp == importBin(t2.signerPubKey, passedObj[8][3].bytes)
    IN IF keyParamsId \notin mKeyPairParams
       THEN [err |-> IMPORT_TYPE_ERROR, tx |-> t]
       ELSE IF keyParamsId = EMPTY
       THEN [err |-> NO_ERROR, tx |-> t2]
       ELSE [err |-> imp.err, tx |-> [t2 EXCEPT !.signerPubKey = imp.key]]

\* fromUnnamedObject(passedObj): the seven assignments, the registry test,
\* then the key handle, the args and the import of the raw key
fromUnnamedObject(t, passedObj) ==
    LET t1 == [t EXCEPT !.schema = passedObj[1],
                        !.account = passedObj[2],
                        !.maxFuel = passedObj[3],
                        !.nonce = passedObj[4],
                        !.network = passedObj[5],
                        !.contract = passedObj[6],
                        !.method = passedObj[7]]
        keyParamsId ==
            IF Len(passedObj[8][2]) > 0
            THEN passedObj[8][1] \o <<"_">> \o passedObj[8][2]
            ELSE passedObj[8][1]
        t2 == [t1 EXCEPT !.signerPubKey = BaseECKey(keyParamsId),
                         !.args = passedObj[9]]
        imp == importBin(t2.signerPubKey, passedObj[8][3].bytes)
    IN IF keyParamsId \notin mKeyPairParams
       THEN [err |-> IMPORT_TYPE_ERROR, tx |-> t1]
       ELSE IF keyParamsId = EMPTY
       THEN [err |-> NO_ERROR, tx |-> t2]
       ELSE [err |-> imp.err, tx |-> [t2 EXCEPT !.signerPubKey = imp.key]]

\* fromObjectWithBuffers(passedObj)
fromObjectWithBuffers(t, passedObj) ==
    LET unnamedObject ==
            << passedObj.schema,
               passedObj.account,
               passedObj.maxFuel,
               passedObj.nonce,
               passedObj.network,
               IF passedObj.contract # NULL THEN passedObj.contract ELSE NULL,
               passedObj.method,
               << passedObj.caller.type, passedObj.caller.curve, passedObj.caller.value >>,
               passedObj.args >>
    IN fromUnnamedObject(t, unnamedObject)

\* fromObject(passedObj)
fromObject(t, passedObj) ==
    LET objBuffers ==
            [ schema   |-> passedObj.schema,
              account  |-> passedObj.account,
              maxFuel  |-> passedObj.maxFuel,
              nonce    |-> BufferFrom("fromObject.nonce", passedObj.nonce),
              network  |-> passedObj.network,
              contract |-> IF passedObj.contract # NULL
                           THEN <<BufferFrom("fromObject.contract", passedObj.contract[1])>>
                           ELSE NULL,
              method   |-> passedObj.method,
              caller   |-> [ type  |-> passedObj.caller.type,
                             curve |-> passedObj.caller.curve,
                             value |-> BufferFrom("fromObject.caller", passedObj.caller.value) ],
              args     |-> BufferFrom("fromObject.args", passedObj.args) ]
    IN fromObjectWithBuffers(t, objBuffers)

---------------------------------------------------------------------------
(* Canonical bytes, sign and verify (Signable / Transaction: documented in *)
(* src/unnamed/part_000, defined outside the files modelled here)          *)

\* the MessagePack encoding of the 9-slot tuple, as its stream of items:
\* array header, str, uint, bin (with its length), nil
mpTuple(u) ==
    << <<"array", 9>>,
       <<"str", u[1]>>,
       <<"str", u[2]>>,
       <<"uint", u[3]>>,
       <<"bin", Len(u[4].bytes), u[4].bytes>>,
       <<"str", u[5]>>,
       IF u[6] = NULL THEN <<"nil">> ELSE <<"bin", Len(u[6][1].bytes), u[6][1].bytes>>,
       <<"str", u[7]>>,
       <<"array", 3>>,
       <<"str", u[8][1]>>,
       <<"str", u[8][2]>>,
       <<"bin", Len(u[8][3].bytes), u[8][3].bytes>>,
       <<"bin", Len(u[9].bytes), u[9].bytes>> >>

\* toBytes(): the encoding of toUnnamedObject()'s tuple
toBytes(t) ==
    LET u == toUnnamedObject(t)
    IN IF u.err # NO_ERROR THEN [err |-> u.err, val |-> <<>>]
       ELSE [err |-> NO_ERROR, val |-> <<mpTuple(u.val[1])>>]

\* private keys a caller can hold, each with the public key derived from it
PrivateKeys ==
    { [paramsId |-> ECDSA_SECP384R1, secret |-> 1, publicRaw |-> <<4, 1>>],
      [paramsId |-> ECDSA_SECP384R1, secret |-> 2, publicRaw |-> <<4, 2>>] }

\* the public key handle derived from a private key
extractPublic(privateKey) ==
    [paramsId |-> privateKey.paramsId, raw |-> privateKey.publicRaw]

\* the signing primitive: a signature is valid for the public key of the
\* signing key and for the signed bytes, and for nothing else
signPrimitive(privateKey, bytes) ==
    [publicRaw |-> privateKey.publicRaw, bytes |-> bytes]

verifyPrimitive(publicKey, bytes, signature) ==
    signature.publicRaw = publicKey.raw /\ signature.bytes = bytes

\* sign(privateKey): the derived public key becomes the signer key, then the
\* canonical bytes are computed and signed
sign(t, privateKey) ==
    LET t1 == signerPublicKey_set(t, extractPublic(privateKey))
        b == toBytes(t1)
    IN IF b.err # NO_ERROR THEN [err |-> b.err, tx |-> t1, sig |-> <<>>]
       ELSE [err |-> NO_ERROR, tx |-> t1,
             sig |-> <<signPrimitive(privateKey, b.val[1])>>]

\* verify(): the primitive on the bytes of the record as it is now, with the
\* signer key it holds now; an error only without signature or key
verify(t, signature) ==
    LET b == toBytes(t)
    IN IF signature = <<>> \/ t.signerPubKey.paramsId = EMPTY
       THEN [err |-> KEY_ERROR, val |-> <<>>]
       ELSE IF b.err # NO_ERROR THEN [err |-> b.err, val |-> <<>>]
       ELSE [err |-> NO_ERROR,
             val |-> <<verifyPrimitive(t.signerPubKey, b.val[1], signature[1])>>]

---------------------------------------------------------------------------
(* What a record holds, whatever Buffer objects hold it *)

\* the record with every buffer replaced by its bytes
Content(t) ==
    [ schema       |-> t.schema,
      account      |-> t.account,
      maxFuel      |-> t.maxFuel,
      nonce        |-> t.nonce.bytes,
      network      |-> t.network,
      contract     |-> IF t.contract = NULL THEN NULL ELSE <<t.contract[1].bytes>>,
      method       |-> t.method,
      args         |-> t.args.bytes,
      signerPubKey |-> t.signerPubKey ]

\* a 9-slot tuple with every buffer replaced by its bytes
TupleContent(u) ==
    << u[1], u[2], u[3], u[4].bytes, u[5],
       IF u[6] = NULL THEN NULL ELSE <<u[6][1].bytes>>,
       u[7], <<u[8][1], u[8][2], u[8][3].bytes>>, u[9].bytes >>

---------------------------------------------------------------------------
(* The values callers pass *)

SampleBytes == {0, 171}

RECURSIVE Pairs(_, _)
\* n copies of the two-character text p
Pairs(p, n) == IF n = 0 THEN <<>> ELSE p \o Pairs(p, n - 1)

\* two hex digits, two others, and two characters that are no hex digits
HexPairs == { <<"0", "0">>, <<"a", "b">>, <<"z", "z">> }

OddTails == { <<>>, <<"0">> }

NonceLengths == {0} \cup ((NONCE_LENGTH - 1)..(NONCE_LENGTH + MaxExtra))

NonceInputs == { Buf("caller", Rep(b, n)) : b \in SampleBytes, n \in NonceLengths }

NonceHexInputs ==
    { Pairs(p, n) \o tail : p \in HexPairs, n \in NonceLengths, tail \in OddTails }
    \cup { Pairs(<<"a", "b">>, k) \o Pairs(<<"z", "z">>, NONCE_LENGTH - k) :
             k \in {1, NONCE_LENGTH - 1} }

RandomStreams == { Rep(b, NONCE_LENGTH + MaxExtra) : b \in SampleBytes }

ShortLengths == 0..(1 + MaxExtra)

BytesInputs == { Buf("caller", Rep(b, n)) : b \in SampleBytes, n \in ShortLengths }

HexInputs ==
    { Pairs(p, n) \o tail : p \in HexPairs, n \in ShortLengths, tail \in OddTails }

HashArgInputs ==
    { [isString |-> TRUE, str |-> h, buf |-> Buf("caller", <<>>)] : h \in HexInputs }
    \cup { [isString |-> FALSE, str |-> <<>>, buf |-> b] : b \in BytesInputs }

\* null, 10, "A", {a: 10}, [1, null]
ArgObjects ==
    { JsNil, JsInt(10), JsStr(<<65>>), JsMap(<<JsStr(<<97>>), JsInt(10)>>),
      JsArr(<<JsInt(1), JsNil>>) }

Accounts == {"", "Qme9"}

Fuels == {0, 10}

Networks == {"", "skynet"}

Methods == {"", "transfer"}

\* the caller part of a tuple: the parts of each registered identifier with
\* a key, the sentinel, a registered identifier with bytes that are no key,
\* and two identifiers the registry does not know
CallerTriples ==
    { << <<>>, <<>>, Buf("caller", <<>>) >>,
      << <<"e","c","d","s","a">>, <<"s","e","c","p","3","8","4","r","1">>,
         Buf("caller", <<4, 1>>) >>,
      << <<"r","s","a">>, <<"o","a","e","p","_","s","h","a">>, Buf("caller", <<48, 1>>) >>,
      << <<"e","d","2","5","5","1","9">>, <<>>, Buf("caller", <<7>>) >>,
      << <<"e","c","d","s","a">>, <<"s","e","c","p","3","8","4","r","1">>,
         Buf("caller", <<>>) >>,
      << <<"e","c","d","s","a">>, <<"s","e","c","p","2","5","6","k","1">>,
         Buf("caller", <<4, 9>>) >>,
      << <<>>, <<"x">>, Buf("caller", <<4, 9>>) >> }

\* the identifier fromUnnamedObject looks up for a caller triple
IdentifierOf(caller) ==
    IF caller[2] = <<>> THEN caller[1] ELSE caller[1] \o <<"_">> \o caller[2]

RegisteredTriples == { c \in CallerTriples : IdentifierOf(c) \in mKeyPairParams }

UnregisteredTriples == CallerTriples \ RegisteredTriples

TupleNonces == { Buf("caller", Rep(171, n)) : n \in (NONCE_LENGTH - 1)..NONCE_LENGTH }

TupleContracts == { NULL, <<Buf("caller", <<>>)>>, <<Buf("caller", <<18, 32>>)>> }

\* a tuple a caller passes to fromUnnamedObject
Tuple(nonce, contract, caller) ==
    << "OTHER_SCHEMA", "QmZ6", 1000, nonce, "testnet", contract, "mint", caller,
       Buf("caller", <<192>>) >>

\* the same values as the named object fromObjectWithBuffers and fromObject
\* take
Named(u) ==
    [ schema |-> u[1], account |-> u[2], maxFuel |-> u[3], nonce |-> u[4],
      network |-> u[5], contract |-> u[6], method |-> u[7],
      caller |-> [type |-> u[8][1], curve |-> u[8][2], value |-> u[8][3]],
      args |-> u[9] ]

AllTuples ==
    { Tuple(n, c, k) : n \in TupleNonces, c \in TupleContracts, k \in CallerTriples }

\* tuples that differ in the nonce only, in the contract only, in the caller
\* only
NonceTuples ==
    { Tuple(n, NULL, k) : n \in TupleNonces,
                          k \in { c \in CallerTriples : c[1] = <<>> } }

ContractTuples ==
    { Tuple(Buf("caller", Rep(171, NONCE_LENGTH)), c, k) :
        c \in TupleContracts, k \in { c2 \in CallerTriples : c2[1] = <<>> } }

CallerTuples ==
    { Tuple(Buf("caller", Rep(171, NONCE_LENGTH)), <<Buf("caller", <<18, 32>>)>>, k) :
        k \in CallerTriples }

---------------------------------------------------------------------------
(* State after construction *)

NONE == <<>>

Init ==
    /\ tx = New(DEFAULT_SCHEMA)
    /\ copy = New(DEFAULT_SCHEMA)
    /\ sig = NONE
    /\ signedTx = NONE
    /\ held = NONE
    /\ op = "constructor"
    /\ arg = NONE
    /\ err = NO_ERROR
    /\ out = NONE
    /\ steps = 0
    /\ pending = NONE

\* history: an export that has not settled yet, after the record came to be t
Seen(p, t) ==
    IF p = NONE THEN NONE ELSE <<[p[1] EXCEPT !.seen = @ \cup {t}]>>

\* a call on tx: the record after it, the call's name and input, what it
\* threw and what it returned; the second instance of an earlier round trip
\* is dropped
Call(newTx, name, input, thrown, returned) ==
    /\ tx' = newTx
    /\ op' = name
    /\ arg' = input
    /\ err' = thrown
    /\ out' = returned
    /\ copy' = New(DEFAULT_SCHEMA)
    /\ pending' = Seen(pending, newTx)
    /\ UNCHANGED <<sig, signedTx, held>>

---------------------------------------------------------------------------
(* One action per accessor *)

DoAccountId ==
    \E id \in Accounts :
        Call(accountId_set(tx, id), "accountId", <<id>>, NO_ERROR, NONE)
        /\ UNCHANGED steps

DoMaxFuel ==
    \E maxFuel \in Fuels :
        Call(maxFuel_set(tx, maxFuel), "maxFuel", <<maxFuel>>, NO_ERROR, NONE)
        /\ UNCHANGED steps

DoNetworkName ==
    \E networkName \in Networks :
        Call(networkName_set(tx, networkName), "networkName", <<networkName>>,
             NO_ERROR, NONE)
        /\ UNCHANGED steps

DoSmartContractMethod ==
    \E method \in Methods :
        Call(smartContractMethod_set(tx, method), "smartContractMethod", <<method>>,
             NO_ERROR, NONE)
        /\ UNCHANGED steps

DoSignerPublicKey ==
    \E key \in PublicKeys :
        Call(signerPublicKey_set(tx, key), "signerPublicKey", <<key>>, NO_ERROR, NONE)
        /\ UNCHANGED steps

DoNonce ==
    \E nonce \in NonceInputs :
        LET r == nonce_set(tx, nonce)
        IN Call(r.tx, "nonce", <<nonce>>, r.err, NONE) /\ UNCHANGED steps

DoNonceGet ==
    Call(tx, "nonce_get", NONE, NO_ERROR, <<nonce_get(tx)>>) /\ UNCHANGED steps

DoNonceHex ==
    \E nonce \in NonceHexInputs :
        LET r == nonceHex_set(tx, nonce)
        IN Call(r.tx, "nonceHex", <<nonce>>, r.err, NONE) /\ UNCHANGED steps

DoNonceHexGet ==
    Call(tx, "nonceHex_get", NONE, NO_ERROR, <<nonceHex_get(tx)>>) /\ UNCHANGED steps

DoGenNonce ==
    \E random \in RandomStreams :
        Call(genNonce(tx, random), "genNonce", NONE, NO_ERROR, NONE)
        /\ UNCHANGED steps

DoSmartContractHash ==
    \E hash \in BytesInputs :
        Call(smartContractHash_set(tx, hash), "smartContractHash", <<hash>>,
             NO_ERROR, NONE)
        /\ UNCHANGED steps

DoSmartContractHashGet ==
    Call(tx, "smartContractHash_get", NONE, NO_ERROR, <<smartContractHash_get(tx)>>)
    /\ UNCHANGED steps

DoSmartContractHashHex ==
    \E hash \in HexInputs :
        Call(smartContractHashHex_set(tx, hash), "smartContractHashHex", <<hash>>,
             NO_ERROR, NONE)
        /\ UNCHANGED steps

DoSmartContractHashHexGet ==
    Call(tx, "smartContractHashHex_get", NONE, NO_ERROR,
         <<smartContractHashHex_get(tx)>>)
    /\ UNCHANGED steps

DoSetSmartContractHash ==
    \E hash \in HashArgInputs :
        Call(setSmartContractHash(tx, hash), "setSmartContractHash", <<hash>>,
             NO_ERROR, NONE)
        /\ UNCHANGED steps

DoSmartContractMethodArgs ==
    \E passedArgs \in ArgObjects :
        Call(smartContractMethodArgs_set(tx, passedArgs), "smartContractMethodArgs",
             <<passedArgs>>, NO_ERROR, NONE)
        /\ UNCHANGED steps

DoSmartContractMethodArgsBytes ==
    \E passedArgs \in BytesInputs :
        Call(smartContractMethodArgsBytes_set(tx, passedArgs),
             "smartContractMethodArgsBytes", <<passedArgs>>, NO_ERROR, NONE)
        /\ UNCHANGED steps

DoSmartContractMethodArgsBytesGet ==
    Call(tx, "smartContractMethodArgsBytes_get", NONE, NO_ERROR,
         <<smartContractMethodArgsBytes_get(tx)>>)
    /\ UNCHANGED steps

DoSmartContractMethodArgsHex ==
    \E passedArgs \in HexInputs :
        Call(smartContractMethodArgsHex_set(tx, passedArgs),
             "smartContractMethodArgsHex", <<passedArgs>>, NO_ERROR, NONE)
        /\ UNCHANGED steps

DoSmartContractMethodArgsHexGet ==
    Call(tx, "smartContractMethodArgsHex_get", NONE, NO_ERROR,
         <<smartContractMethodArgsHex_get(tx)>>)
    /\ UNCHANGED steps

---------------------------------------------------------------------------
(* Export and import, each awaited before the next call *)

DoToUnnamedObject ==
    LET r == toUnnamedObject(tx)
    IN Call(tx, "toUnnamedObject", NONE, r.err, r.val) /\ UNCHANGED steps

DoToObjectWithBuffers ==
    LET r == toObjectWithBuffers(tx)
    IN Call(tx, "toObjectWithBuffers", NONE, r.err, r.val) /\ UNCHANGED steps

DoToObject ==
    LET r == toObject(tx)
    IN Call(tx, "toObject", NONE, r.err, r.val) /\ UNCHANGED steps

\* the import operations on a set of tuples
FromUnnamedObjectOf(tuples) ==
    \E passedObj \in tuples :
        LET r == fromUnnamedObject(tx, passedObj)
        IN Call(r.tx, "fromUnnamedObject", <<passedObj>>, r.err,
                IF r.err = NO_ERROR THEN <<TRUE>> ELSE NONE)
           /\ UNCHANGED steps

FromObjectWithBuffersOf(tuples) ==
    \E u \in tuples :
        LET r == fromObjectWithBuffers(tx, Named(u))
        IN Call(r.tx, "fromObjectWithBuffers", <<u>>, r.err,
                IF r.err = NO_ERROR THEN <<TRUE>> ELSE NONE)
           /\ UNCHANGED steps

FromObjectOf(tuples) ==
    \E u \in tuples :
        LET r == fromObject(tx, Named(u))
        IN Call(r.tx, "fromObject", <<u>>, r.err,
                IF r.err = NO_ERROR THEN <<TRUE>> ELSE NONE)
           /\ UNCHANGED steps

ImportOps == {"fromUnnamedObject", "fromObjectWithBuffers", "fromObject"}

ExportOps == {"toUnnamedObject", "toObjectWithBuffers", "toObject"}

ImportedName(export) ==
    CASE export = "toUnnamedObject" -> "fromUnnamedObject(toUnnamedObject)"
      [] export = "toObjectWithBuffers" -> "fromObjectWithBuffers(toObjectWithBuffers)"
      [] export = "toObject" -> "fromObject(toObject)"

RoundTripOps == { ImportedName(e) : e \in ExportOps }

\* a fresh record imports what the last export of tx resolved with, by the
\* import that matches the export
DoImportExported ==
    /\ op \in ExportOps
    /\ err = NO_ERROR
    /\ LET r == CASE op = "toUnnamedObject" ->
                       fromUnnamedObject(New(DEFAULT_SCHEMA), out[1])
                  [] op = "toObjectWithBuffers" ->
                       fromObjectWithBuffers(New(DEFAULT_SCHEMA), out[1])
                  [] op = "toObject" ->
                       fromObject(New(DEFAULT_SCHEMA), out[1])
       IN /\ copy' = r.tx
          /\ err' = r.err
          /\ op' = ImportedName(op)
          /\ arg' = out
          /\ out' = IF r.err = NO_ERROR THEN <<TRUE>> ELSE NONE
    /\ UNCHANGED <<tx, sig, signedTx, held, steps, pending>>

---------------------------------------------------------------------------
(* Signing: the caller sets fields, signs, sets fields again and verifies. *)
(* At most MaxEdits setter calls are made in a behaviour.                  *)

EditValues ==
    { Buf("caller", Rep(b, n)) : b \in SampleBytes, n \in 0..1 }

EditNonces == { Buf("caller", Rep(b, NONCE_LENGTH)) : b \in SampleBytes }

EditAccountId ==
    /\ steps < MaxEdits
    /\ steps' = steps + 1
    /\ \E id \in Accounts :
         Call(accountId_set(tx, id), "accountId", <<id>>, NO_ERROR, NONE)

EditMaxFuel ==
    /\ steps < MaxEdits
    /\ steps' = steps + 1
    /\ \E maxFuel \in Fuels :
         Call(maxFuel_set(tx, maxFuel), "maxFuel", <<maxFuel>>, NO_ERROR, NONE)

EditNonce ==
    /\ steps < MaxEdits
    /\ steps' = steps + 1
    /\ \E nonce \in EditNonces :
         LET r == nonce_set(tx, nonce)
         IN Call(r.tx, "nonce", <<nonce>>, r.err, NONE)

EditNetworkName ==
    /\ steps < MaxEdits
    /\ steps' = steps + 1
    /\ \E networkName \in Networks :
         Call(networkName_set(tx, networkName), "networkName", <<networkName>>,
              NO_ERROR, NONE)

EditSmartContractHash ==
    /\ steps < MaxEdits
    /\ steps' = steps + 1
    /\ \E hash \in EditValues :
         Call(smartContractHash_set(tx, hash), "smartContractHash", <<hash>>,
              NO_ERROR, NONE)

EditSmartContractMethod ==
    /\ steps < MaxEdits
    /\ steps' = steps + 1
    /\ \E method \in Methods :
         Call(smartContractMethod_set(tx, method), "smartContractMethod", <<method>>,
              NO_ERROR, NONE)

EditSmartContractMethodArgsBytes ==
    /\ steps < MaxEdits
    /\ steps' = steps + 1
    /\ \E passedArgs \in EditValues :
         Call(smartContractMethodArgsBytes_set(tx, passedArgs),
              "smartContractMethodArgsBytes", <<passedArgs>>, NO_ERROR, NONE)

EditSignerPublicKey ==
    /\ steps < MaxEdits
    /\ steps' = steps + 1
    /\ \E key \in PublicKeys :
         Call(signerPublicKey_set(tx, key), "signerPublicKey", <<key>>, NO_ERROR, NONE)

DoSign ==
    \E privateKey \in PrivateKeys :
        LET r == sign(tx, privateKey)
        IN /\ tx' = r.tx
           /\ sig' = r.sig
           /\ signedTx' = IF r.err = NO_ERROR THEN <<Content(r.tx)>> ELSE signedTx
           /\ op' = "sign"
           /\ arg' = <<privateKey>>
           /\ err' = r.err
           /\ out' = r.sig
           /\ UNCHANGED <<copy, held, steps, pending>>

DoVerify ==
    LET r == verify(tx, sig)
    IN /\ op' = "verify"
       /\ arg' = NONE
       /\ err' = r.err
       /\ out' = r.val
       /\ UNCHANGED <<tx, copy, sig, signedTx, held, steps, pending>>

---------------------------------------------------------------------------
(* Aliasing: the caller keeps an object toObject() resolved with, then     *)
(* writes into the byte arrays of that object and into the buffers the     *)
(* record holds (those it passed in by reference, and the one the nonce    *)
(* getter hands out), and goes on calling setters.  At most MaxWrites      *)
(* caller steps follow the keeping of the object.                          *)

\* buffer b after bytes[0] = 255 was executed on the Buffer object made at
\* `site`
Poke(b, site) ==
    IF b.site = site /\ Len(b.bytes) > 0 THEN [b EXCEPT !.bytes[1] = 255] ELSE b

PokeOption(c, site) == IF c = NULL THEN NULL ELSE <<Poke(c[1], site)>>

\* the record, and a named object, after that write
PokeRecord(t, site) ==
    [t EXCEPT !.nonce = Poke(@, site),
              !.contract = PokeOption(@, site),
              !.args = Poke(@, site)]

PokeObject(o, site) ==
    [o EXCEPT !.nonce = Poke(@, site),
              !.contract = PokeOption(@, site),
              !.caller.value = Poke(@, site),
              !.args = Poke(@, site)]

\* the byte arrays of a named object, and the buffers of the record that a
\* caller can hold a reference to
BuffersOfObject(o) ==
    {o.nonce, o.caller.value, o.args}
    \cup (IF o.contract = NULL THEN {} ELSE {o.contract[1]})

ReachableBuffersOfRecord(t) ==
    {nonce_get(t)}
    \cup { b \in {t.args} \cup (IF t.contract = NULL THEN {} ELSE {t.contract[1]}) :
             b.site = "caller" }

\* a caller step counts once an object is kept
Counted ==
    IF held = NONE THEN steps' = steps
    ELSE steps < MaxWrites /\ steps' = steps + 1

AliasTuple ==
    Tuple(Buf("caller", Rep(171, NONCE_LENGTH)), <<Buf("caller", <<18, 32>>)>>,
          << <<"e","d","2","5","5","1","9">>, <<>>, Buf("caller", <<7>>) >>)

AliasNonce ==
    /\ Counted
    /\ \E nonce \in {Buf("caller", Rep(0, NONCE_LENGTH))} :
         LET r == nonce_set(tx, nonce)
         IN Call(r.tx, "nonce", <<nonce>>, r.err, NONE)

AliasGenNonce ==
    /\ Counted
    /\ \E random \in {Rep(171, NONCE_LENGTH)} :
         Call(genNonce(tx, random), "genNonce", NONE, NO_ERROR, NONE)

AliasSmartContractHash ==
    /\ Counted
    /\ \E hash \in {Buf("caller", <<>>), Buf("caller", <<171>>)} :
         Call(smartContractHash_set(tx, hash), "smartContractHash", <<hash>>,
              NO_ERROR, NONE)

AliasSmartContractMethodArgsBytes ==
    /\ Counted
    /\ \E passedArgs \in {Buf("caller", <<171>>)} :
         Call(smartContractMethodArgsBytes_set(tx, passedArgs),
              "smartContractMethodArgsBytes", <<passedArgs>>, NO_ERROR, NONE)

AliasSignerPublicKey ==
    /\ Counted
    /\ \E key \in {[paramsId |-> ECDSA_SECP384R1, raw |-> <<4, 1>>]} :
         Call(signerPublicKey_set(tx, key), "signerPublicKey", <<key>>, NO_ERROR, NONE)

AliasFromUnnamedObject ==
    /\ Counted
    /\ LET r == fromUnnamedObject(tx, AliasTuple)
       IN Call(r.tx, "fromUnnamedObject", <<AliasTuple>>, r.err,
               IF r.err = NO_ERROR THEN <<TRUE>> ELSE NONE)

\* the caller keeps what toObject() just resolved with
Keep ==
    /\ op = "toObject"
    /\ err = NO_ERROR
    /\ held = NONE
    /\ held' = out
    /\ op' = "keep"
    /\ arg' = NONE
    /\ out' = NONE
    /\ UNCHANGED <<tx, copy, sig, signedTx, err, steps, pending>>

\* the caller writes into a byte array of the object it keeps
WriteHeld ==
    /\ held # NONE
    /\ Counted
    /\ \E b \in BuffersOfObject(held[1]) :
         /\ Len(b.bytes) > 0
         /\ held' = <<PokeObject(held[1], b.site)>>
         /\ tx' = PokeRecord(tx, b.site)
         /\ arg' = <<b>>
    /\ op' = "write held"
    /\ err' = NO_ERROR
    /\ out' = NONE
    /\ UNCHANGED <<copy, sig, signedTx, pending>>

\* the caller writes into a buffer the record holds
WriteRecord ==
    /\ Counted
    /\ \E b \in ReachableBuffersOfRecord(tx) :
         /\ Len(b.bytes) > 0
         /\ tx' = PokeRecord(tx, b.site)
         /\ held' = IF held = NONE THEN NONE ELSE <<PokeObject(held[1], b.site)>>
         /\ arg' = <<b>>
    /\ op' = "write record"
    /\ err' = NO_ERROR
    /\ out' = NONE
    /\ UNCHANGED <<copy, sig, signedTx, pending>>

---------------------------------------------------------------------------
(* Exports that have not settled.  toUnnamedObject builds its tuple and   *)
(* calls getRaw() on the key handle the record holds when it is called;   *)
(* the continuation of getRaw(), and after it the continuation in          *)
(* toObject, run in later turns of the event loop, after whatever the      *)
(* caller did to the record in between.                                    *)

\* an import counted as one of the caller's edits
EditFromUnnamedObject ==
    /\ steps < MaxEdits
    /\ steps' = steps + 1
    /\ \E passedObj \in CallerTuples :
         LET r == fromUnnamedObject(tx, passedObj)
         IN Call(r.tx, "fromUnnamedObject", <<passedObj>>, r.err,
                 IF r.err = NO_ERROR THEN <<TRUE>> ELSE NONE)

\* the promise of the export that was called settles
Settle(name, thrown, returned) ==
    /\ pending' = NONE
    /\ op' = name
    /\ arg' = NONE
    /\ err' = thrown
    /\ out' = returned
    /\ UNCHANGED <<tx, copy, sig, signedTx, held, steps>>

\* the call of an export, up to where it returns its promise: resultObj is
\* built from the fields and getRaw() is called on the handle the record
\* holds now (not at all when that handle is the sentinel)
BeginExport ==
    /\ pending = NONE
    /\ \E name \in ExportOps :
         pending' = << [ export     |-> name,
                         stage      |-> "getRaw",
                         resultObj  |-> toUnnamedObject_begin(tx),
                         key        |-> tx.signerPubKey,
                         objBuffers |-> NONE,
                         seen       |-> {tx} ] >>
    /\ op' = "export called"
    /\ arg' = NONE
    /\ err' = NO_ERROR
    /\ out' = NONE
    /\ UNCHANGED <<tx, copy, sig, signedTx, held, steps>>

\* getRaw() settles and its continuation in toUnnamedObject runs on the
\* record as it is now; toObjectWithBuffers projects the tuple at once, and
\* toObject leaves its own continuation to a later turn
ResumeGetRaw ==
    /\ pending # NONE
    /\ pending[1].stage = "getRaw"
    /\ LET p == pending[1]
           got == getRaw(p.key)
           unnamedObject ==
               IF p.key.paramsId = EMPTY THEN p.resultObj
               ELSE toUnnamedObject_then(p.resultObj, tx, got.raw)
       IN IF p.key.paramsId # EMPTY /\ got.err # NO_ERROR
          THEN Settle(p.export, got.err, NONE)
          ELSE IF p.export = "toUnnamedObject"
          THEN Settle(p.export, NO_ERROR, <<unnamedObject>>)
          ELSE IF p.export = "toObjectWithBuffers"
          THEN Settle(p.export, NO_ERROR, <<toObjectWithBuffers_then(unnamedObject)>>)
          ELSE /\ pending' = << [p EXCEPT
                                   !.stage = "toObject",
                                   !.objBuffers = <<toObjectWithBuffers_then(unnamedObject)>>] >>
               /\ op' = "export resumed"
               /\ arg' = NONE
               /\ err' = NO_ERROR
               /\ out' = NONE
               /\ UNCHANGED <<tx, copy, sig, signedTx, held, steps>>

\* the continuation in toObject runs on the record as it is now
ResumeToObject ==
    /\ pending # NONE
    /\ pending[1].stage = "toObject"
    /\ Settle(pending[1].export, NO_ERROR,
              <<toObject_then(pending[1].objBuffers[1], tx)>>)

---------------------------------------------------------------------------
(* Specifications.  Spec is the export/import pipeline with the accessors  *)
(* that vary what is exported; SpecNonce, SpecHash and SpecArgs are the    *)
(* accessors of one field each with the imports that write that field.     *)

\* every caller triple, and tuples with a nonce of 7 bytes, with no contract
\* hash and with one of no bytes
SpecTuples ==
    CallerTuples
    \cup { Tuple(Buf("caller", Rep(171, NONCE_LENGTH - 1)), c, << <<>>, <<>>, Buf("caller", <<>>) >>) :
             c \in {NULL, <<Buf("caller", <<>>)>>} }

FromUnnamedObject == FromUnnamedObjectOf(SpecTuples)

FromObjectWithBuffers == FromObjectWithBuffersOf(SpecTuples)

FromObject == FromObjectOf(SpecTuples)

Next ==
    \/ DoAccountId
    \/ DoMaxFuel
    \/ DoSignerPublicKey
    \/ DoSmartContractHash
    \/ DoToUnnamedObject
    \/ DoToObjectWithBuffers
    \/ DoToObject
    \/ FromUnnamedObject
    \/ FromObjectWithBuffers
    \/ FromObject
    \/ DoImportExported

Spec == Init /\ [][Next]_vars

NonceFromUnnamedObject == FromUnnamedObjectOf(NonceTuples)

NonceFromObjectWithBuffers == FromObjectWithBuffersOf(NonceTuples)

NonceFromObject == FromObjectOf(NonceTuples)

NextNonce ==
    \/ DoNonce
    \/ DoNonceGet
    \/ DoNonceHex
    \/ DoNonceHexGet
    \/ DoGenNonce
    \/ NonceFromUnnamedObject
    \/ NonceFromObjectWithBuffers
    \/ NonceFromObject

SpecNonce == Init /\ [][NextNonce]_vars

ContractFromUnnamedObject == FromUnnamedObjectOf(ContractTuples)

ContractFromObjectWithBuffers == FromObjectWithBuffersOf(ContractTuples)

ContractFromObject == FromObjectOf(ContractTuples)

NextHash ==
    \/ DoSmartContractHash
    \/ DoSmartContractHashGet
    \/ DoSmartContractHashHex
    \/ DoSmartContractHashHexGet
    \/ DoSetSmartContractHash
    \/ DoToUnnamedObject
    \/ ContractFromUnnamedObject
    \/ ContractFromObjectWithBuffers
    \/ ContractFromObject

SpecHash == Init /\ [][NextHash]_vars

NextArgs ==
    \/ DoSmartContractMethodArgs
    \/ DoSmartContractMethodArgsBytes
    \/ DoSmartContractMethodArgsBytesGet
    \/ DoSmartContractMethodArgsHex
    \/ DoSmartContractMethodArgsHexGet
    \/ DoNetworkName
    \/ DoSmartContractMethod
    \/ ContractFromUnnamedObject

SpecArgs == Init /\ [][NextArgs]_vars

---------------------------------------------------------------------------
(* Claims on the nonce (SpecNonce) *)

\* the bytes a value written through nonce (a buffer) or nonceHex (hex text)
\* decodes to
NonceDecoded(name, value) ==
    IF name = "nonce" THEN value.bytes ELSE HexDecode(value)

\* C1: a write through the nonce or the nonceHex setter of a value whose
\* decoded length is not 8 fails with WRONG_TX_NONCE_LENGTH and leaves the
\* stored nonce as it was; a write of a value whose decoded length is 8 makes
\* the stored nonce that value.
C1_NonceSettersCheckDecodedLength ==
    [][ op' \in {"nonce", "nonceHex"} =>
          LET decoded == NonceDecoded(op', arg'[1])
          IN IF Len(decoded) # NONCE_LENGTH
             THEN err' = WRONG_TX_NONCE_LENGTH /\ tx'.nonce = tx.nonce
             ELSE err' = NO_ERROR /\ tx'.nonce.bytes = decoded ]_vars

\* C9: once the nonce was written (the stored buffer is no longer the one the
\* constructor made), the stored nonce is exactly 8 bytes long.
C9_WrittenNonceIsEightBytes ==
    tx.nonce.site # "constructor" => Len(tx.nonce.bytes) = NONCE_LENGTH

---------------------------------------------------------------------------
(* Claims on the contract hash (SpecHash) *)

C10_HashAbsentOrNonEmpty ==
    /\ tx.contract = NULL \/ Len(tx.contract[1].bytes) > 0
    /\ toUnnamedObject_begin(tx)[6] = NULL
       \/ Len(toUnnamedObject_begin(tx)[6][1].bytes) > 0

---------------------------------------------------------------------------
(* Claims on the arguments (SpecArgs) *)

ArgSetters ==
    {"smartContractMethodArgs", "smartContractMethodArgsBytes",
     "smartContractMethodArgsHex"}

\* the bytes a value written through one of the three setters converts to
ArgsConverted(name, value) ==
    CASE name = "smartContractMethodArgs" -> mpEncode(value)
      [] name = "smartContractMethodArgsBytes" -> value.bytes
      [] name = "smartContractMethodArgsHex" -> HexDecode(value)

\* C7: each write through one of the three argument setters leaves the args
\* field holding the conversion of the written value alone, whatever was
\* written before, and changes no other field; the bytes getter and the hex
\* getter both read that field.
C7_ArgsLastWriteWins ==
    [][ /\ op' \in ArgSetters =>
             /\ tx'.args.bytes = ArgsConverted(op', arg'[1])
             /\ [tx' EXCEPT !.args = tx.args] = tx
        /\ op' = "smartContractMethodArgsBytes_get" =>
             out'[1].bytes = tx.args.bytes /\ tx' = tx
        /\ op' = "smartContractMethodArgsHex_get" =>
             out'[1] = HexEncode(tx.args.bytes) /\ tx' = tx ]_vars

\* C7's case: a write of the empty byte array on a record whose args were
\* written before (they are no longer the constructor's buffer) and whose
\* other fields are set
C7_Witness ==
    /\ op = "smartContractMethodArgsBytes"
    /\ arg[1].bytes = <<>>
    /\ tx.args.bytes = <<>>
    /\ tx.args.site # "constructor"
    /\ tx.network = "skynet"
    /\ tx.method = "transfer"

---------------------------------------------------------------------------
(* Claims on export and import (Spec) *)

\* whether a key handle is the sentinel or holds a key
KeyUnsetOrSet(key) == key.paramsId = EMPTY \/ key.raw # <<>>

\* C2: a record whose signer key is unset or set exports by each of the three
\* exports, and a fresh record importing the result by the matching import
\* succeeds and then has, slot by slot, the tuple of the exporting record, and
\* so the same canonical bytes.
C2_ExportImportRoundTrip ==
    /\ op \in ExportOps /\ KeyUnsetOrSet(tx.signerPubKey) => err = NO_ERROR
    /\ op \in RoundTripOps =>
         /\ err = NO_ERROR
         /\ out = <<TRUE>>
         /\ toUnnamedObject(copy).err = NO_ERROR
         /\ TupleContent(toUnnamedObject(copy).val[1])
              = TupleContent(toUnnamedObject(tx).val[1])
         /\ toBytes(copy) = toBytes(tx)

\* C2's case: the round trip through toObject and fromObject of a record with
\* a key whose identifier has no separator, a contract hash and a nonce
C2_Witness ==
    /\ op = "fromObject(toObject)"
    /\ copy.signerPubKey = [paramsId |-> ED25519, raw |-> <<7>>]
    /\ copy.contract # NULL
    /\ Len(copy.nonce.bytes) = NONCE_LENGTH
    /\ copy.account = "Qme9"

\* C4: an import, by any of the three imports, of a tuple whose caller
\* identifier is not in the registry rejects with IMPORT_TYPE_ERROR, resolves
\* with nothing, and leaves the signer key of the record as it was.
C4_UnregisteredKeyRejected ==
    [][ op' \in ImportOps /\ IdentifierOf(arg'[1][8]) \notin mKeyPairParams =>
          /\ err' = IMPORT_TYPE_ERROR
          /\ out' = NONE
          /\ tx'.signerPubKey = tx.signerPubKey ]_vars

\* C4's case: a rejected import on a record that holds a key, which it keeps
C4_Witness ==
    /\ op = "fromObject"
    /\ arg[1][8] \in UnregisteredTriples
    /\ err = IMPORT_TYPE_ERROR
    /\ tx.signerPubKey = [paramsId |-> RSA_OAEP_SHA384, raw |-> <<48, 1>>]

\* C6: whenever toUnnamedObject resolves, it resolves with 9 slots holding, in
\* this order, schema, account, maxFuel, nonce, network, contract, method,
\* the caller triple and args; with the sentinel key it resolves (no raw key
\* is asked of the handle, which holds none) and the triple is two empty
\* strings and no bytes; otherwise the triple is the identifier up to its
\* first separator, the identifier after it (empty without separator) and
\* the raw key bytes.
C6_TupleLayout ==
    /\ op = "toUnnamedObject" /\ tx.signerPubKey.paramsId = EMPTY => err = NO_ERROR
    /\ op = "toUnnamedObject" /\ err = NO_ERROR =>
         LET u == out[1]
             id == tx.signerPubKey.paramsId
         IN /\ Len(u) = 9
            /\ u[1] = tx.schema
            /\ u[2] = tx.account
            /\ u[3] = tx.maxFuel
            /\ u[4] = tx.nonce
            /\ u[5] = tx.network
            /\ u[6] = tx.contract
            /\ u[7] = tx.method
            /\ u[9] = tx.args
            /\ Len(u[8]) = 3
            /\ IF id = EMPTY
               THEN u[8][1] = <<>> /\ u[8][2] = <<>> /\ u[8][3].bytes = <<>>
               ELSE /\ u[8][3].bytes = tx.signerPubKey.raw
                    /\ \A i \in 1..Len(u[8][1]) : u[8][1][i] # "_"
                    /\ IF \E i \in 1..Len(id) : id[i] = "_"
                       THEN id = u[8][1] \o <<"_">> \o u[8][2]
                       ELSE id = u[8][1] /\ u[8][2] = <<>>

\* C6's case: the tuple of a record with a key whose identifier has two
\* separators
C6_Witness ==
    /\ op = "toUnnamedObject"
    /\ err = NO_ERROR
    /\ tx.signerPubKey.paramsId = RSA_OAEP_SHA384
    /\ out[1][8][2] = <<"o","a","e","p","_","s","h","a">>
    /\ tx.maxFuel = 10

---------------------------------------------------------------------------
(* Claim on sign and verify (SpecSign) *)

NextSign ==
    \/ EditAccountId
    \/ EditMaxFuel
    \/ EditNonce
    \/ EditNetworkName
    \/ EditSmartContractHash
    \/ EditSmartContractMethod
    \/ EditSmartContractMethodArgsBytes
    \/ EditSignerPublicKey
    \/ DoSign
    \/ DoVerify

SpecSign == Init /\ [][NextSign]_vars

\* C3: once sign() has succeeded, verify() resolves with a boolean and never
\* rejects: with true when every field holds what it held when sign()
\* succeeded, with false when some field holds something else.
C3_VerifyTracksSignedContent ==
    op = "verify" /\ signedTx # NONE =>
        /\ err = NO_ERROR
        /\ out = <<Content(tx) = signedTx[1]>>

\* C3's case: maxFuel, and nothing else, was changed after sign(), and
\* verify() resolved with false
C3_Witness ==
    /\ op = "verify"
    /\ signedTx # NONE
    /\ signedTx[1].maxFuel = 0
    /\ Content(tx) = [signedTx[1] EXCEPT !.maxFuel = 10]
    /\ err = NO_ERROR
    /\ out = <<FALSE>>

---------------------------------------------------------------------------
(* Claim on the copies toObject makes (SpecAlias) *)

NextAlias ==
    \/ AliasNonce
    \/ AliasGenNonce
    \/ AliasSmartContractHash
    \/ AliasSmartContractMethodArgsBytes
    \/ AliasSignerPublicKey
    \/ AliasFromUnnamedObject
    \/ DoToObject
    \/ Keep
    \/ WriteHeld
    \/ WriteRecord

SpecAlias == Init /\ [][NextAlias]_vars

\* C8: a write into a byte array of the object toObject() resolved with
\* changes nothing of the record (nonce, contract hash, args, signer key),
\* and nothing done to the record afterwards (a setter, an import, a write
\* into a buffer the record holds) changes that object.
C8_ToObjectCopies ==
    [][ /\ op' = "write held" => tx' = tx
        /\ held # NONE /\ op' # "write held" => held' = held ]_vars

\* C8's case: the nonce of the kept object was written into, and the nonce of
\* the record, still 8 bytes of the same buffer, does not show the write
C8_Witness ==
    /\ op = "write held"
    /\ held # NONE
    /\ Len(held[1].nonce.bytes) = NONCE_LENGTH
    /\ held[1].nonce.bytes[1] = 255
    /\ tx.nonce.site = "caller"
    /\ tx.nonce.bytes = Rep(171, NONCE_LENGTH)
    /\ tx.contract # NULL

---------------------------------------------------------------------------
(* Claim on the failed import (Spec) *)

\* C11: a call of fromUnnamedObject that rejects at the registry test leaves
\* args and the signer key as they were before the call, and leaves schema,
\* account, maxFuel, nonce, network, contract and method holding slots 0 to 6
\* of the rejected tuple.
C11_FailedImportIsPartial ==
    [][ op' = "fromUnnamedObject" /\ err' = IMPORT_TYPE_ERROR =>
          LET passedObj == arg'[1]
          IN /\ tx'.args = tx.args
             /\ tx'.signerPubKey = tx.signerPubKey
             /\ tx'.schema = passedObj[1]
             /\ tx'.account = passedObj[2]
             /\ tx'.maxFuel = passedObj[3]
             /\ tx'.nonce = passedObj[4]
             /\ tx'.network = passedObj[5]
             /\ tx'.contract = passedObj[6]
             /\ tx'.method = passedObj[7] ]_vars

\* C11's case: after a rejected import the record holds the schema, account
\* and nonce of the rejected tuple next to the args the constructor made and
\* the key that was set before the call
C11_Witness ==
    /\ op = "fromUnnamedObject"
    /\ err = IMPORT_TYPE_ERROR
    /\ arg[1][8] \in UnregisteredTriples
    /\ tx.schema = arg[1][1]
    /\ tx.schema # DEFAULT_SCHEMA
    /\ tx.account = arg[1][2]
    /\ tx.nonce = arg[1][4]
    /\ tx.args.site = "constructor"
    /\ tx.args # arg[1][9]
    /\ tx.signerPubKey = [paramsId |-> RSA_OAEP_SHA384, raw |-> <<48, 1>>]

---------------------------------------------------------------------------
(* Claim on exports that overlap other calls (SpecAsync) *)

NextAsync ==
    \/ EditMaxFuel
    \/ EditSignerPublicKey
    \/ EditFromUnnamedObject
    \/ BeginExport
    \/ ResumeGetRaw
    \/ ResumeToObject

SpecAsync == Init /\ [][NextAsync]_vars

\* what an export gives on record t when nothing else runs before it settles
ExportOf(name, t) ==
    CASE name = "toUnnamedObject" -> toUnnamedObject(t)
      [] name = "toObjectWithBuffers" -> toObjectWithBuffers(t)
      [] name = "toObject" -> toObject(t)

\* C12: whatever is called on the record between the call of an export and
\* the settling of its promise, what the export resolves with is what it
\* gives on one single state among those the record was in meanwhile: every
\* slot, the schema, and both the identifier and the raw bytes of the caller
\* triple come from that one state.
C12_ExportIsSnapshot ==
    [][ pending # NONE /\ pending' = NONE /\ err' = NO_ERROR =>
          \E s \in pending[1].seen :
              ExportOf(pending[1].export, s) = [err |-> NO_ERROR, val |-> out'] ]_vars

===========================================================================
